---- MODULE Spec2Model ----
(***************************************************************************)
(* mioco (src/lib.rs): one coroutine built by a Builder, the I/O cells     *)
(* wrapped for it, the mio event loop that holds their edge|oneshot        *)
(* registrations, and the peers of the wrapped transports.                 *)
(*                                                                         *)
(* Control is single-threaded: `ctl` says whose code runs (the builder,    *)
(* the event loop, the coroutine, or the external handler that called      *)
(* resume() and is waiting for it to return).  The peers act at any time.  *)
(*                                                                         *)
(* `pipe` is a second system on the same code: two coroutines, each with   *)
(* one cell, joined by a connected transport pair.  Spec leaves it alone   *)
(* and PipeSpec moves nothing else.                                        *)
(***************************************************************************)
EXTENDS Integers, FiniteSets, Sequences, TLC

\* ------------------------------------------------------------------ bounds
MaxOps == 2         \* read/write calls the coroutine body makes
MaxBuf == 1         \* bytes a transport buffers in either direction
MaxSpurious == 1    \* readiness events the loop reports with nothing to read/write
MaxMsg == 3         \* bytes the writer of a connected pair sends

\* the tokens the host hands to wrap_io: two transports show every cross-token case
Tokens == {1, 2}

VARIABLES
    state,      \* Coroutine.state
    coroutine,  \* Coroutine.coroutine is Some(handle)
    handles,    \* Builder.handles: the tokens wrapped so far
    interest,   \* IO.interest, per token
    peer_hup,   \* IO.peer_hup, per token
    reg,        \* the event loop's registration of each transport
    inbuf,      \* transport: bytes received and not yet read
    outfree,    \* transport: free room in the send buffer
    peer,       \* transport: "open", "rdhup" (peer closed its sending half), "hup" (hung up)
    ctl,        \* "builder", "reactor", "co", "ext"
    co,         \* the coroutine's position and the call it is in
    ext,        \* the frame that called resume(): op, tok, hup (the hint it was given)
    ops,        \* read/write calls made by the body
    spurious,   \* spurious readiness events delivered
    deregs,     \* event_loop.deregister calls, per token
    yielded,    \* the coroutine has blocked at least once
    panicked,   \* the expect()/panic!() that ended the program, or "no"
    held,       \* the RefCell borrows outstanding, oldest first
    pipe        \* two coroutines joined by a connected transport pair

vars == << state, coroutine, handles, interest, peer_hup, reg, inbuf, outfree, peer,
           ctl, co, ext, ops, spurious, deregs, yielded, panicked, held, pipe >>

\* the variables of the one-coroutine system
MainVars == << state, coroutine, handles, interest, peer_hup, reg, inbuf, outfree, peer,
               ctl, co, ext, ops, spurious, deregs, yielded, panicked, held >>

\* --------------------------------------------------------------- enum State
Running == [k |-> "Running", t |-> 0]
Finished == [k |-> "Finished", t |-> 0]
BlockedOnRead(token) == [k |-> "BlockedOnRead", t |-> token]
BlockedOnWrite(token) == [k |-> "BlockedOnWrite", t |-> token]

\* ------------------------------------------------------------ mio::Interest
InterestNone == {}
InterestReadable == {"readable"}
InterestWritable == {"writable"}
InterestHup == {"hup"}
WrongState == {"panic: wrong state"}

\* State::to_interest_for
to_interest_for(st, token) ==
    CASE st.k = "Running" -> WrongState
      [] st.k = "BlockedOnRead" -> IF token = st.t THEN InterestReadable ELSE InterestNone
      [] st.k = "BlockedOnWrite" -> IF token = st.t THEN InterestWritable ELSE InterestNone
      [] st.k = "Finished" -> InterestHup

\* ------------------------------------------------------- the event loop side
Unregistered == [registered |-> FALSE, mask |-> {}, armed |-> FALSE]

\* register_opt(io, token, readable | writable, edge | oneshot) in wrap_io
WrapRegistration ==
    [registered |-> TRUE, mask |-> InterestReadable \cup InterestWritable, armed |-> TRUE]

\* the transport has something to read: bytes, or end-of-stream
RdReady(t) == inbuf[t] > 0 \/ peer[t] # "open"
\* the transport takes a write: room, or an error to report
WrReady(t) == outfree[t] > 0 \/ peer[t] = "hup"

NoFrame == [op |-> "none", tok |-> 0, hup |-> FALSE]

\* the coroutine at a position outside read() and write(): no call, no result
NoCall(at) == [at |-> at, h |-> 0, wb |-> 0, yl |-> 0, res |-> "none"]

\* ------------------------------------------------------- RefCell borrows
\* the two kinds of shared cell: Rc<RefCell<IO>> of a token, Rc<RefCell<Coroutine>>
IoCell(t) == [k |-> "io", t |-> t]
CoCell == [k |-> "co", t |-> 0]

\* cell.borrow(), cell.borrow_mut(), and the end of the scope of the guard
Borrow(c) == [ev |-> "borrow", cell |-> c, mut |-> FALSE]
BorrowMut(c) == [ev |-> "borrow", cell |-> c, mut |-> TRUE]
Drop(c, m) == [ev |-> "drop", cell |-> c, mut |-> m]

\* RefCell refuses borrow() while mutably borrowed and borrow_mut() while borrowed
Refused(e, out) ==
    /\ e.ev = "borrow"
    /\ \E j \in 1 .. Len(out) : out[j].cell = e.cell /\ (out[j].mut \/ e.mut)

\* the outstanding guards without the youngest one of cell c and kind m
RECURSIVE Dropped(_, _, _)
Dropped(out, c, m) ==
    IF out = << >> THEN << >>
    ELSE LET last == out[Len(out)]
             rest == SubSeq(out, 1, Len(out) - 1)
         IN  IF last.cell = c /\ last.mut = m THEN rest
             ELSE Append(Dropped(rest, c, m), last)

\* the outstanding guards after one event
AfterEvent(e, out) ==
    IF e.ev = "borrow" THEN Append(out, [cell |-> e.cell, mut |-> e.mut])
    ELSE Dropped(out, e.cell, e.mut)

\* the outstanding guards after a run of events
RECURSIVE AfterEvents(_, _)
AfterEvents(trace, out) ==
    IF trace = << >> THEN out
    ELSE AfterEvents(Tail(trace), AfterEvent(Head(trace), out))

\* some borrow of the run is refused: BorrowError / BorrowMutError
RECURSIVE BorrowPanics(_, _)
BorrowPanics(trace, out) ==
    IF trace = << >> THEN FALSE
    ELSE \/ Refused(Head(trace), out)
         \/ BorrowPanics(Tail(trace), AfterEvent(Head(trace), out))

\* IO::reregister, line 98: self.coroutine.borrow() for the length of the statement
InterestBorrows == << Borrow(CoCell), Drop(CoCell, FALSE) >>

\* let mut inn = self.inn.borrow_mut(); inn.reregister(..): lines 182-183, 186-187,
\* 215-216 and 221-222
ReregisterBorrows(token) ==
    << BorrowMut(IoCell(token)) >> \o InterestBorrows \o << Drop(IoCell(token), TRUE) >>

\* the block of lines 165-169 and 199-203: co and co_b live to its end
SnapshotBorrows(token) ==
    << Borrow(IoCell(token)), Borrow(CoCell), Drop(CoCell, FALSE), Drop(IoCell(token), FALSE) >>

\* the block of lines 173-178 and 207-212, which ends before handle.resume()
TakeHandleBorrows(token) ==
    << Borrow(IoCell(token)), Borrow(CoCell), Drop(CoCell, FALSE),
       BorrowMut(CoCell), Drop(CoCell, TRUE), Drop(IoCell(token), FALSE) >>

\* self.inn.borrow_mut().io.try_read(buf), lines 231 and 254: a temporary
TryBorrows(h) == << BorrowMut(IoCell(h)), Drop(IoCell(h), TRUE) >>

\* mutant: `inn` of line 235 is not scoped and lives across Coroutine::block()
ParkBorrowsStraddle(h) ==
    << Borrow(IoCell(h)), BorrowMut(CoCell), Drop(CoCell, TRUE) >>

\* the block of lines 234-237 and 257-260, which ends before Coroutine::block()
ParkBorrows(h) ==
    << Borrow(IoCell(h)), BorrowMut(CoCell), Drop(CoCell, TRUE), Drop(IoCell(h), FALSE) >>

\* one turn of the loop of read / write, up to the block() or the return
LoopBorrows(h, parks) == TryBorrows(h) \o (IF parks THEN ParkBorrows(h) ELSE << >>)

\* ioref.coroutine.borrow_mut() of lines 358 and 360: a temporary
ClosureBorrows == << BorrowMut(CoCell), Drop(CoCell, TRUE) >>

\* what a run of events asks of the cells and leaves behind, on its own
Asked(trace) ==
    { [cell |-> trace[i].cell, mut |-> trace[i].mut] :
        i \in { j \in 1 .. Len(trace) : trace[j].ev = "borrow" } }
Scope(trace) ==
    [panics |-> BorrowPanics(trace, << >>),
     asks   |-> Asked(trace),
     leaves |-> AfterEvents(trace, << >>)]

\* the scopes of the code, once for all
ClosureScope == Scope(ClosureBorrows)
LoopScope == [h \in Tokens, parks \in BOOLEAN |-> Scope(LoopBorrows(h, parks))]
ReregisterScope == [t \in Tokens |-> Scope(ReregisterBorrows(t))]
NoScope == Scope(<< >>)

\* a scope entered while `held` is outstanding: a borrow of it is refused if the
\* scope refuses it on its own or a guard of the same cell is held and one of the
\* two is mutable
Refuses(scope) ==
    \/ scope.panics
    \/ \E r \in scope.asks : \E j \in 1 .. Len(held) :
          held[j].cell = r.cell /\ (held[j].mut \/ r.mut)

\* a refused borrow panics where it is asked for
BorrowPanic ==
    /\ panicked' = "already borrowed"
    /\ UNCHANGED << state, coroutine, handles, interest, peer_hup, reg, inbuf, outfree,
                    peer, ctl, co, ext, ops, spurious, deregs, yielded, held >>

\* --------------------------------------------------- a connected pair
\* the writer and the reader, and the token of the one cell each was built with
Roles == {"w", "r"}
TokenOf == [w |-> 1, r |-> 2]

\* the bytes the writer's body sends, in order
Message == [i \in 1 .. MaxMsg |-> i]

\* both builders made and their ends wrapped (Builder::new, wrap_io), nothing started
PipeStart ==
    [st       |-> [w |-> Running, r |-> Running],
     reg      |-> [w |-> WrapRegistration, r |-> WrapRegistration],
     interest |-> [w |-> InterestNone, r |-> InterestNone],
     at       |-> [w |-> "unspawned", r |-> "unspawned"],
     yielded  |-> [w |-> FALSE, r |-> FALSE],
     run      |-> [who |-> "builder", c |-> "none", op |-> "none"],
     buf      |-> << >>,
     sent     |-> << >>,
     got      |-> << >>,
     spurious |-> 0]

\* --------------------------------------------------------------------- Init
\* Builder::new
Init ==
    /\ state = Running
    /\ coroutine = FALSE
    /\ handles = {}
    /\ interest = [t \in Tokens |-> InterestNone]
    /\ peer_hup = [t \in Tokens |-> FALSE]
    /\ reg = [t \in Tokens |-> Unregistered]
    /\ inbuf = [t \in Tokens |-> 0]
    /\ outfree = [t \in Tokens |-> 0]
    /\ peer = [t \in Tokens |-> "open"]
    /\ ctl = "builder"
    /\ co = NoCall("unspawned")
    /\ ext = NoFrame
    /\ ops = 0
    /\ spurious = 0
    /\ deregs = [t \in Tokens |-> 0]
    /\ yielded = FALSE
    /\ panicked = "no"
    /\ held = << >>
    /\ pipe = PipeStart

\* ------------------------------------------------------------ struct IO ops
\* event_loop.reregister(io, token, self.interest, edge | oneshot): the transport's
\* registration is replaced and armed again
Rearmed(token, i) ==
    [reg EXCEPT ![token] = [registered |-> TRUE, mask |-> i, armed |-> TRUE]]

\* the one-shot registration of `token` has fired and is not rearmed
Disarmed(token) == [reg EXCEPT ![token].armed = FALSE]

\* mutant: the mask is computed from the snapshot the handler took before resume()
ReregisterFromSnapshot(token) ==
    LET snap == IF ext.op = "readable" THEN BlockedOnRead(ext.tok)
                ELSE IF ext.op = "writable" THEN BlockedOnWrite(ext.tok)
                ELSE state
        i == to_interest_for(snap, token)
    IN  /\ interest' = [interest EXCEPT ![token] = i]
        /\ reg' = Rearmed(token, i)
        /\ UNCHANGED panicked

\* IO::reregister
reregister(token) ==
    LET i == to_interest_for(state, token) IN
    IF i = WrongState
    THEN /\ panicked' = "wrong state"
         /\ reg' = Disarmed(token)
         /\ UNCHANGED interest
    ELSE /\ interest' = [interest EXCEPT ![token] = i]
         /\ IF reg[token].registered
            THEN reg' = Rearmed(token, i) /\ UNCHANGED panicked
            ELSE reg' = reg /\ panicked' = "reregister failed"

\* mutant: IO::hup deregisters whatever the recorded interest
HupAlwaysDeregisters(token) == TRUE

\* IO::hup, the test of line 85
hup_deregisters(token) == interest[token] = InterestHup

\* IO::hup
hup(token) ==
    IF hup_deregisters(token)
    THEN /\ interest' = [interest EXCEPT ![token] = InterestNone]
         /\ UNCHANGED peer_hup
         /\ IF reg[token].registered
            THEN /\ reg' = [reg EXCEPT ![token] = Unregistered]
                 /\ deregs' = [deregs EXCEPT ![token] = @ + 1]
                 /\ UNCHANGED panicked
            ELSE /\ panicked' = "deregister() failed"
                 /\ UNCHANGED << reg, deregs >>
    ELSE /\ peer_hup' = [peer_hup EXCEPT ![token] = TRUE]
         /\ reregister(token)
         /\ UNCHANGED deregs

\* ExternalHandle::is_finished
is_finished(token) == state = Finished /\ interest[token] = InterestNone

\* ------------------------------------------------------------ Builder
\* Builder::wrap_io
wrap_io(token) ==
    /\ panicked = "no"
    /\ ctl = "builder"
    /\ token \notin handles
    /\ \A u \in Tokens : u < token => u \in handles   \* tokens are handed out in order
    /\ reg' = [reg EXCEPT ![token] = WrapRegistration]
    /\ interest' = [interest EXCEPT ![token] = InterestNone]
    /\ peer_hup' = [peer_hup EXCEPT ![token] = FALSE]
    /\ handles' = handles \cup {token}
    /\ UNCHANGED << state, coroutine, inbuf, outfree, peer, ctl, co, ext, ops,
                    spurious, deregs, yielded, panicked >>
    /\ UNCHANGED held
    /\ UNCHANGED pipe

\* Builder::start: spawn, then resume the fresh coroutine
start ==
    /\ panicked = "no"
    /\ ctl = "builder"
    /\ ctl' = "co"
    /\ co' = [co EXCEPT !.at = "entry"]
    /\ ext' = [op |-> "start", tok |-> 0, hup |-> FALSE]
    /\ UNCHANGED << state, coroutine, handles, interest, peer_hup, reg, inbuf, outfree,
                    peer, ops, spurious, deregs, yielded, panicked >>
    /\ UNCHANGED held
    /\ UNCHANGED pipe

\* the spawned closure, line 358: the coroutine records its own handle
co_entry ==
    /\ panicked = "no"
    /\ ctl = "co"
    /\ co.at = "entry"
    /\ IF Refuses(ClosureScope)
       THEN BorrowPanic
       ELSE /\ coroutine' = TRUE
            /\ co' = [co EXCEPT !.at = "body"]
            /\ UNCHANGED << state, handles, interest, peer_hup, reg, inbuf, outfree, peer, ctl,
                            ext, ops, spurious, deregs, yielded, panicked >>
            /\ held' = held \o ClosureScope.leaves
    /\ UNCHANGED pipe

\* ------------------------------------------- the body f(&mut handles)
\* f calls handles[h].read(buf)
call_read(h) ==
    /\ panicked = "no"
    /\ ctl = "co"
    /\ co.at = "body"
    /\ h \in handles
    /\ ops < MaxOps
    /\ ops' = ops + 1
    /\ co' = [at |-> "try_read", h |-> h, wb |-> 0, yl |-> 0, res |-> "none"]
    /\ UNCHANGED << state, coroutine, handles, interest, peer_hup, reg, inbuf, outfree,
                    peer, ctl, ext, spurious, deregs, yielded, panicked >>
    /\ UNCHANGED held
    /\ UNCHANGED pipe

\* f calls handles[h].write(buf)
call_write(h) ==
    /\ panicked = "no"
    /\ ctl = "co"
    /\ co.at = "body"
    /\ h \in handles
    /\ ops < MaxOps
    /\ ops' = ops + 1
    /\ co' = [at |-> "try_write", h |-> h, wb |-> 0, yl |-> 0, res |-> "none"]
    /\ UNCHANGED << state, coroutine, handles, interest, peer_hup, reg, inbuf, outfree,
                    peer, ctl, ext, spurious, deregs, yielded, panicked >>
    /\ UNCHANGED held
    /\ UNCHANGED pipe

\* f returns: line 360, and the coroutine ends, which returns from resume()
body_return ==
    /\ panicked = "no"
    /\ ctl = "co"
    /\ co.at = "body"
    /\ IF Refuses(ClosureScope)
       THEN BorrowPanic
       ELSE /\ state' = Finished
            /\ co' = NoCall("returned")
            /\ ctl' = "ext"
            /\ UNCHANGED << coroutine, handles, interest, peer_hup, reg, inbuf, outfree, peer,
                            ext, ops, spurious, deregs, yielded, panicked >>
            /\ held' = held \o ClosureScope.leaves
    /\ UNCHANGED pipe

\* the state after .ok().expect("resume() failed") has met an Err, lines 179, 213
\* and 363: the expect panics and nothing is written
StateAfterFailedResume == state

\* f panics: the coroutine ends without reaching line 360, resume() returns Err to
\* the frame that called it, and that frame's expect panics in turn
body_panic ==
    /\ panicked = "no"
    /\ ctl = "co"
    /\ co.at = "body"
    /\ co' = NoCall("panicked")
    /\ ctl' = "ext"
    /\ panicked' = "resume() failed"
    /\ state' = StateAfterFailedResume
    /\ UNCHANGED << coroutine, handles, interest, peer_hup, reg, inbuf, outfree,
                    peer, ext, ops, spurious, deregs, yielded >>
    /\ UNCHANGED held
    /\ UNCHANGED pipe

\* --------------------------------------------- InternalHandle::read / write
\* mutant: read() blocks without writing the state
ParkStateUnwritten(h) == Running

\* the state written before Coroutine::block(), lines 236 and 259
ParkStateRead(h) == BlockedOnRead(h)
ParkStateWrite(h) == BlockedOnWrite(h)

\* the outcomes of io.try_read(buf) on the transport of h
TryReadOutcomes(h) ==
    IF inbuf[h] > 0 THEN {"bytes"}
    ELSE IF peer[h] = "open" THEN {"wouldblock"}
    ELSE IF peer[h] = "rdhup" THEN {"eof"}
    ELSE {"eof", "err"}

\* the outcomes of io.try_write(buf) on the transport of h
TryWriteOutcomes(h) ==
    IF peer[h] = "hup" THEN {"err"}
    ELSE IF outfree[h] > 0 THEN {"bytes"}
    ELSE {"wouldblock"}

\* mutant: read() hands Ok(None) back to its caller instead of parking
ReadNeverParks(outcome) == FALSE

\* what read() does with an outcome: Ok(None) parks, anything else is returned
ReadParks(outcome) == outcome = "wouldblock"
\* what write() does with an outcome
WriteParks(outcome) == outcome = "wouldblock"

\* InternalHandle::read, one turn of the loop: lines 231-246
try_read ==
    /\ panicked = "no"
    /\ ctl = "co"
    /\ co.at = "try_read"
    /\ \E outcome \in TryReadOutcomes(co.h) :
         IF Refuses(LoopScope[co.h, ReadParks(outcome)])
         THEN BorrowPanic
         ELSE /\ IF outcome = "bytes"
                 THEN \E n \in 1 .. inbuf[co.h] : inbuf' = [inbuf EXCEPT ![co.h] = @ - n]
                 ELSE UNCHANGED inbuf
              /\ IF ReadParks(outcome)
                 THEN /\ state' = ParkStateRead(co.h)
                      /\ co' = [co EXCEPT !.at = "block_read", !.wb = @ + 1, !.res = outcome]
                 ELSE /\ co' = [at |-> "body", h |-> 0, wb |-> 0, yl |-> 0, res |-> outcome]
                      /\ UNCHANGED state
              /\ UNCHANGED << coroutine, handles, interest, peer_hup, reg, outfree, peer, ctl, ext,
                         ops, spurious, deregs, yielded, panicked >>
              /\ held' = held \o LoopScope[co.h, ReadParks(outcome)].leaves
    /\ UNCHANGED pipe

\* InternalHandle::write, one turn of the loop: lines 254-269
try_write ==
    /\ panicked = "no"
    /\ ctl = "co"
    /\ co.at = "try_write"
    /\ \E outcome \in TryWriteOutcomes(co.h) :
         IF Refuses(LoopScope[co.h, WriteParks(outcome)])
         THEN BorrowPanic
         ELSE /\ IF outcome = "bytes"
                 THEN \E n \in 1 .. outfree[co.h] : outfree' = [outfree EXCEPT ![co.h] = @ - n]
                 ELSE UNCHANGED outfree
              /\ IF WriteParks(outcome)
                 THEN /\ state' = ParkStateWrite(co.h)
                      /\ co' = [co EXCEPT !.at = "block_write", !.wb = @ + 1, !.res = outcome]
                 ELSE /\ co' = [at |-> "body", h |-> 0, wb |-> 0, yl |-> 0, res |-> outcome]
                      /\ UNCHANGED state
              /\ UNCHANGED << coroutine, handles, interest, peer_hup, reg, inbuf, peer, ctl, ext,
                         ops, spurious, deregs, yielded, panicked >>
              /\ held' = held \o LoopScope[co.h, WriteParks(outcome)].leaves
    /\ UNCHANGED pipe

\* coroutine::Coroutine::block(), lines 238 and 261: control returns to whoever
\* called resume()
block ==
    /\ panicked = "no"
    /\ ctl = "co"
    /\ co.at \in {"block_read", "block_write"}
    /\ co' = [co EXCEPT !.at = IF co.at = "block_read" THEN "parked_read" ELSE "parked_write",
                        !.yl = @ + 1]
    /\ ctl' = "ext"
    /\ yielded' = TRUE
    /\ UNCHANGED << state, coroutine, handles, interest, peer_hup, reg, inbuf, outfree,
                    peer, ext, ops, spurious, deregs, panicked >>
    /\ UNCHANGED held
    /\ UNCHANGED pipe

\* ----------------------------------------------------------- ExternalHandle
\* mutant: readable resumes on a read block whatever the token
ReadableDecisionAnyToken(st, token) ==
    IF st.k = "BlockedOnRead" THEN "resume"
    ELSE IF st.k = "BlockedOnWrite" /\ token = st.t THEN "reregister"
    ELSE "return"

\* mutant: readable ignores events for a token the coroutine is not blocked on
ReadableDecisionOwnTokenOnly(st, token) ==
    IF st.k \in {"BlockedOnRead", "BlockedOnWrite"} /\ token = st.t
    THEN IF st.k = "BlockedOnRead" THEN "resume" ELSE "reregister"
    ELSE "return"

\* mutant: readable ignores events while the coroutine is blocked on write
ReadableDecisionReadOnly(st, token) ==
    IF st.k = "BlockedOnRead"
    THEN IF token = st.t THEN "resume" ELSE "reregister"
    ELSE "return"

\* mutant: readable reregisters the cell of a Finished coroutine
ReadableDecisionFinishedRearms(st, token) ==
    IF st.k = "BlockedOnRead"
    THEN IF token = st.t THEN "resume" ELSE "reregister"
    ELSE IF st.k = "BlockedOnWrite"
    THEN IF token = st.t THEN "reregister" ELSE "return"
    ELSE "reregister"

\* the branch ExternalHandle::readable takes on the snapshot, lines 171-189
ReadableDecision(st, token) ==
    IF st.k = "BlockedOnRead"
    THEN IF token = st.t THEN "resume" ELSE "reregister"
    ELSE IF st.k = "BlockedOnWrite"
    THEN IF token = st.t THEN "reregister" ELSE "return"
    ELSE "return"

\* the branch ExternalHandle::writable takes on the snapshot, lines 205-224
WritableDecision(st, token) ==
    IF st.k = "BlockedOnWrite"
    THEN IF token = st.t THEN "resume" ELSE "return"
    ELSE IF st.k = "BlockedOnRead"
    THEN IF token = st.t THEN "reregister" ELSE "return"
    ELSE "return"

\* mutant: no handler reregisters once resume() has returned
NeverReregistersAfterResume(op) == FALSE

\* mutant: resume() without writing the state
StateLeftBlocked == state

\* the state written before handle.resume(), lines 176 and 210
StateBeforeResume == Running

\* where a parked coroutine continues: the top of the loop it blocked in
ResumePoint(at) ==
    IF at = "parked_read" THEN "try_read"
    ELSE IF at = "parked_write" THEN "try_write"
    ELSE "dead"

\* lines 173-179 and 207-213: take the handle, write the state, resume
resume(op, token, hint) ==
    IF ~coroutine
    THEN /\ panicked' = "unwrap on None"
         /\ UNCHANGED << state, ctl, co, ext >>
    ELSE IF ResumePoint(co.at) = "dead"
    THEN /\ panicked' = "resume() failed"
         /\ state' = StateBeforeResume
         /\ UNCHANGED << ctl, co, ext >>
    ELSE /\ state' = StateBeforeResume
         /\ co' = [co EXCEPT !.at = ResumePoint(co.at)]
         /\ ctl' = "co"
         /\ ext' = [op |-> op, tok |-> token, hup |-> hint]
         /\ UNCHANGED panicked

\* the path an event handler takes: IO::hup with or without deregister, or the
\* branch taken on the snapshot
HandlerPaths == {"deregister", "hup", "resume", "reregister", "return"}
ReadablePath(token, hint) ==
    IF hint THEN (IF hup_deregisters(token) THEN "deregister" ELSE "hup")
    ELSE ReadableDecision(state, token)
WritablePath(token) == WritableDecision(state, token)

\* ExternalHandle::readable and writable, up to the return or the resume(): IO::hup
\* under the inn.borrow_mut() of line 159, or the snapshot and then the branch
HandlerBorrows(token, path) ==
    CASE path = "deregister" -> << BorrowMut(IoCell(token)), Drop(IoCell(token), TRUE) >>
      [] path = "hup" ->
           << BorrowMut(IoCell(token)) >> \o InterestBorrows \o << Drop(IoCell(token), TRUE) >>
      [] path = "resume" -> SnapshotBorrows(token) \o TakeHandleBorrows(token)
      [] path = "reregister" -> SnapshotBorrows(token) \o ReregisterBorrows(token)
      [] OTHER -> SnapshotBorrows(token)
HandlerScope ==
    [token \in Tokens, path \in HandlerPaths |-> Scope(HandlerBorrows(token, path))]

\* the event loop may call readable(token, hint): the registration is armed and
\* asks for it; a hung-up transport reports hup on every event, a half-closed one
\* may; a readable event with nothing to read is spurious
ReadableDeliverable(token, hint) ==
    /\ reg[token].registered
    /\ reg[token].armed
    /\ IF hint
       THEN /\ peer[token] # "open"
            /\ reg[token].mask \cap (InterestReadable \cup InterestHup) # {}
       ELSE /\ peer[token] # "hup"
            /\ reg[token].mask \cap InterestReadable # {}
            /\ RdReady(token) \/ spurious < MaxSpurious

\* the event loop may call writable(token)
WritableDeliverable(token) ==
    /\ reg[token].registered
    /\ reg[token].armed
    /\ reg[token].mask \cap InterestWritable # {}
    /\ WrReady(token) \/ spurious < MaxSpurious

\* ExternalHandle::readable, up to the return or the resume()
readable(token, hint) ==
    /\ panicked = "no"
    /\ ctl = "reactor"
    /\ token \in handles
    /\ ReadableDeliverable(token, hint)
    /\ IF Refuses(HandlerScope[token, ReadablePath(token, hint)])
       THEN BorrowPanic
       ELSE /\ spurious' = IF ~hint /\ ~RdReady(token) THEN spurious + 1 ELSE spurious
            /\ IF hint
               THEN /\ hup(token)
                    /\ UNCHANGED << state, ctl, co, ext >>
               ELSE /\ UNCHANGED << deregs, peer_hup >>
                    /\ CASE ReadableDecision(state, token) = "resume" ->
                              /\ resume("readable", token, hint)
                              /\ reg' = Disarmed(token)
                              /\ UNCHANGED interest
                         [] ReadableDecision(state, token) = "reregister" ->
                              /\ reregister(token)
                              /\ UNCHANGED << state, ctl, co, ext >>
                         [] OTHER ->
                              /\ reg' = Disarmed(token)
                              /\ UNCHANGED << state, ctl, co, ext, interest, panicked >>
            /\ UNCHANGED << coroutine, handles, inbuf, outfree, peer, ops, yielded >>
            /\ held' = held \o HandlerScope[token, ReadablePath(token, hint)].leaves
    /\ UNCHANGED pipe

\* ExternalHandle::writable, up to the return or the resume()
writable(token) ==
    /\ panicked = "no"
    /\ ctl = "reactor"
    /\ token \in handles
    /\ WritableDeliverable(token)
    /\ IF Refuses(HandlerScope[token, WritablePath(token)])
       THEN BorrowPanic
       ELSE /\ spurious' = IF ~WrReady(token) THEN spurious + 1 ELSE spurious
            /\ CASE WritableDecision(state, token) = "resume" ->
                      /\ resume("writable", token, FALSE)
                      /\ reg' = Disarmed(token)
                      /\ UNCHANGED interest
                 [] WritableDecision(state, token) = "reregister" ->
                      /\ reregister(token)
                      /\ UNCHANGED << state, ctl, co, ext >>
                 [] OTHER ->
                      /\ reg' = Disarmed(token)
                      /\ UNCHANGED << state, ctl, co, ext, interest, panicked >>
            /\ UNCHANGED << coroutine, handles, peer_hup, inbuf, outfree, peer, ops, deregs, yielded >>
            /\ held' = held \o HandlerScope[token, WritablePath(token)].leaves
    /\ UNCHANGED pipe

\* whether the frame that called resume() reregisters once resume() has returned:
\* readable (lines 182-183) and writable (lines 215-216) do, start (line 363) does not
ReregistersAfterResume(op) == op \in {"readable", "writable"}

\* what the frame that called resume() borrows once resume() has returned
ResumeReturnsScope ==
    IF ReregistersAfterResume(ext.op) THEN ReregisterScope[ext.tok] ELSE NoScope

\* resume() returns Ok to its caller: the coroutine has blocked or ended
resume_returns ==
    /\ panicked = "no"
    /\ ctl = "ext"
    /\ IF Refuses(ResumeReturnsScope)
       THEN BorrowPanic
       ELSE /\ IF ReregistersAfterResume(ext.op)
               THEN reregister(ext.tok)
               ELSE UNCHANGED << interest, reg, panicked >>
            /\ ctl' = "reactor"
            /\ ext' = NoFrame
            /\ UNCHANGED << state, coroutine, handles, peer_hup, inbuf, outfree, peer, co,
                            ops, spurious, deregs, yielded >>
            /\ held' = held \o ResumeReturnsScope.leaves
    /\ UNCHANGED pipe

\* ------------------------------------------------------------------- peers
\* The peers run concurrently with everything.  Only the event loop and the
\* try_read / try_write of a transport look at it, so a step of its peer is taken
\* right before one of them: every other interleaving commutes with it.
PeerMayAct(token) ==
    \/ ctl = "reactor"
    \/ ctl = "co" /\ co.at \in {"try_read", "try_write"} /\ co.h = token

\* the peer of a wrapped transport sends a byte
peer_send(token) ==
    /\ panicked = "no"
    /\ PeerMayAct(token)
    /\ token \in handles
    /\ peer[token] = "open"
    /\ inbuf[token] < MaxBuf
    /\ inbuf' = [inbuf EXCEPT ![token] = @ + 1]
    /\ UNCHANGED << state, coroutine, handles, interest, peer_hup, reg, outfree, peer,
                    ctl, co, ext, ops, spurious, deregs, yielded, panicked >>
    /\ UNCHANGED held
    /\ UNCHANGED pipe

\* the peer reads a byte, which frees room in the send buffer
peer_drain(token) ==
    /\ panicked = "no"
    /\ PeerMayAct(token)
    /\ token \in handles
    /\ peer[token] # "hup"
    /\ outfree[token] < MaxBuf
    /\ outfree' = [outfree EXCEPT ![token] = @ + 1]
    /\ UNCHANGED << state, coroutine, handles, interest, peer_hup, reg, inbuf, peer,
                    ctl, co, ext, ops, spurious, deregs, yielded, panicked >>
    /\ UNCHANGED held
    /\ UNCHANGED pipe

\* the peer closes its sending half ("rdhup") or hangs up ("hup")
peer_close(token, how) ==
    /\ panicked = "no"
    /\ PeerMayAct(token)
    /\ token \in handles
    /\ peer[token] # "hup"
    /\ peer[token] # how
    /\ peer' = [peer EXCEPT ![token] = how]
    /\ UNCHANGED << state, coroutine, handles, interest, peer_hup, reg, inbuf, outfree,
                    ctl, co, ext, ops, spurious, deregs, yielded, panicked >>
    /\ UNCHANGED held
    /\ UNCHANGED pipe

\* -------------------------------------------------------------------- Next
CoroutineStep ==
    \/ co_entry
    \/ \E h \in Tokens : call_read(h)
    \/ \E h \in Tokens : call_write(h)
    \/ body_return
    \/ body_panic
    \/ try_read
    \/ try_write
    \/ block

Next ==
    \/ \E token \in Tokens : wrap_io(token)
    \/ start
    \/ CoroutineStep
    \/ \E token \in Tokens : \E hint \in BOOLEAN : readable(token, hint)
    \/ \E token \in Tokens : writable(token)
    \/ resume_returns
    \/ \E token \in Tokens : peer_send(token)
    \/ \E token \in Tokens : peer_drain(token)
    \/ \E token \in Tokens : \E how \in {"rdhup", "hup"} : peer_close(token, how)

Spec == Init /\ [][Next]_vars

\* The coroutine runs until it blocks or returns, resume() returns to its caller, and
\* the event loop dispatches an event that stays deliverable (where it may report a
\* readable event with or without the hup hint, it does not withhold either for
\* ever).  The peers are under no obligation.
Fairness ==
    /\ WF_vars(CoroutineStep)
    /\ WF_vars(resume_returns)
    /\ \A token \in Tokens : \A hint \in BOOLEAN : WF_vars(readable(token, hint))
    /\ \A token \in Tokens : WF_vars(writable(token))

FairSpec == Spec /\ Fairness

\* ------------------------------------------------------------------ claims
\* a hup-hinted event has been handled for the cell: IO::hup either set peer_hup or
\* deregistered
HupProcessed(t) == peer_hup[t] \/ deregs[t] > 0

\* the coroutine is handed control by resume(): it leaves the block() it was parked in
Resumed == co.at \in {"parked_read", "parked_write"} /\ co'.at \notin {"parked_read", "parked_write"}

\* C1: whenever control is back in the event loop, the mask the loop holds for every
\* wrapped token is to_interest_for(state, token), except that the transport of a
\* Finished coroutine whose hup was processed is deregistered.
C1_ReactorMaskIsInterestForState ==
    ctl = "reactor" =>
        \A t \in handles :
            \/ reg[t].registered /\ reg[t].mask = to_interest_for(state, t)
            \/ state = Finished /\ HupProcessed(t) /\ ~reg[t].registered

\* an event handler called resume(): the coroutine left block(), or the handler
\* wrote the state, or resume() failed
ResumeCalled ==
    \/ Resumed
    \/ ctl = "reactor" /\ state' # state
    \/ ctl = "reactor" /\ panicked = "no" /\ panicked' = "resume() failed"

\* C2: after start, resume() is called only by readable(t) without the hup hint
\* while the state is BlockedOnRead(t), or by writable(t) while the state is
\* BlockedOnWrite(t); it then continues the read (resp. write) that was parked.
C2_ResumedOnlyOnMatchingEvent ==
    [][ResumeCalled =>
          \E t \in handles :
              \/ /\ state = BlockedOnRead(t)
                 /\ ext' = [op |-> "readable", tok |-> t, hup |-> FALSE]
                 /\ co.at = "parked_read" /\ co'.at = "try_read"
              \/ /\ state = BlockedOnWrite(t)
                 /\ ext' = [op |-> "writable", tok |-> t, hup |-> FALSE]
                 /\ co.at = "parked_write" /\ co'.at = "try_write"]_vars

\* C2 witness: readable(t) has resumed the coroutine while events for the other
\* token were armed as well
C2_Witness ==
    /\ ctl = "co"
    /\ co.at = "try_read"
    /\ ext.op = "readable"
    /\ \E u \in handles : u # ext.tok /\ reg[u].armed

\* the coroutine body, or the read/write it called, is executing
BodyExecuting == ctl = "co" /\ co.at \in {"entry", "body", "try_read", "try_write"}

\* C3: while the body executes the state is Running; the state leaves Running only
\* in read/write right before block(), to Blocked on the handle's own token, or
\* when the body has returned.
C3_BodySeesRunning ==
    /\ [](BodyExecuting => state = Running)
    /\ [][(state = Running /\ state' # Running) =>
              \/ co.at = "try_read" /\ co'.at = "block_read" /\ state' = BlockedOnRead(co.h)
              \/ co.at = "try_write" /\ co'.at = "block_write" /\ state' = BlockedOnWrite(co.h)
              \/ co.at = "body" /\ co'.at = "returned" /\ state' = Finished]_vars

\* C3 witness: the coroutine runs again after a resume
C3_Witness == BodyExecuting /\ yielded /\ ext.op \in {"readable", "writable"} /\ state = Running

\* C4: a coroutine parked on a transport that has not hung up and is ready in the
\* direction it is parked on is eventually resumed.
C4_NoLostWakeup ==
    \A t \in Tokens :
        /\ (ctl = "reactor" /\ state = BlockedOnRead(t) /\ RdReady(t))
               ~> (state # BlockedOnRead(t) \/ peer[t] = "hup")
        /\ (ctl = "reactor" /\ state = BlockedOnWrite(t) /\ WrReady(t))
               ~> (state # BlockedOnWrite(t) \/ peer[t] = "hup")

\* C5: is_finished is monotonic over the events the loop delivers: once true for a
\* handle, it stays true.
C5_IsFinishedMonotonic ==
    [][\A t \in handles :
          (ctl = "reactor" /\ ctl' = "reactor" /\ is_finished(t)) => is_finished(t)']_vars

\* C6: whenever is_finished is true for a handle, its transport is deregistered: the
\* loop holds no registration for its token.
C6_FinishedMeansDeregistered ==
    \A t \in handles : (ctl = "reactor" /\ is_finished(t)) => ~reg[t].registered

\* the loop handles a hup-hinted event for t, the first for that cell
FirstHup(t) == ~HupProcessed(t) /\ HupProcessed(t)'

\* C7: when the body returned inside start without ever blocking, the state is
\* Finished, and the first hup event delivered for a wrapped token deregisters its
\* transport (one deregistration) and leaves is_finished true.
C7_FinishThenHupDeregisters ==
    /\ []((ctl = "reactor" /\ ~yielded) => state = Finished)
    /\ [][\A t \in handles :
             (ctl = "reactor" /\ ~yielded /\ FirstHup(t)) =>
                 /\ deregs'[t] = 1
                 /\ ~reg'[t].registered
                 /\ is_finished(t)']_vars

\* C8: a token wrapped for a coroutine that finishes is deregistered exactly once: never
\* twice, and eventually once its peer has hung up.
C8_ExactlyOneDeregistration ==
    \A t \in Tokens :
        /\ [](deregs[t] <= 1)
        /\ (t \in handles /\ state = Finished /\ peer[t] # "open") ~> (deregs[t] = 1)

\* the cell of t has handled a hup-hinted event while the coroutine was parked in
\* read on t: peer_hup is set and the registration is rearmed for readable
HupWhileParkedInRead(t) ==
    /\ ctl = "reactor"
    /\ state = BlockedOnRead(t)
    /\ peer_hup[t]
    /\ reg[t].registered /\ reg[t].armed /\ reg[t].mask = InterestReadable

\* C9: after a hup-hinted readable(t) on a coroutine parked in BlockedOnRead(t), the
\* coroutine is eventually resumed (its read then observes end-of-stream).
C9_HupWhileParkedResumes ==
    \A t \in Tokens : HupWhileParkedInRead(t) ~> (state # BlockedOnRead(t))

\* C10: a read/write call returns only an outcome other than would-block; a
\* would-block attempt sets the state to Blocked on the handle's own token and is
\* followed by exactly one block(); the attempt is retried only after readable
\* (for read) or writable (for write) on that token has resumed the coroutine.
C10_ReadWriteYieldDiscipline ==
    [][/\ (co.at \in {"try_read", "try_write"} /\ co'.at = "body") =>
             co'.res \in {"bytes", "eof", "err"} /\ co.yl = co.wb
       /\ (co.at = "try_read" /\ co'.at \notin {"try_read", "body"}) =>
             /\ co'.at = "block_read" /\ co'.res = "wouldblock"
             /\ state' = BlockedOnRead(co.h) /\ co'.wb = co.yl + 1
       /\ (co.at = "try_write" /\ co'.at \notin {"try_write", "body"}) =>
             /\ co'.at = "block_write" /\ co'.res = "wouldblock"
             /\ state' = BlockedOnWrite(co.h) /\ co'.wb = co.yl + 1
       /\ (co.at \in {"block_read", "block_write"} /\ co'.at # co.at) =>
             co'.yl = co.wb /\ ctl' = "ext"
       /\ (co.at = "parked_read" /\ co'.at # co.at) =>
             co'.at = "try_read" /\ ext' = [op |-> "readable", tok |-> co.h, hup |-> FALSE]
       /\ (co.at = "parked_write" /\ co'.at # co.at) =>
             co'.at = "try_write" /\ ext' = [op |-> "writable", tok |-> co.h, hup |-> FALSE]
      ]_vars

\* C10 witness: a read retried after its second yield, with bytes to return
C10_Witness == ctl = "co" /\ co.at = "try_read" /\ co.yl = 2 /\ inbuf[co.h] > 0

\* the registration event_loop.reregister leaves for a mask: registered and armed
ArmedFor(mask) == [registered |-> TRUE, mask |-> mask, armed |-> TRUE]

\* C11: while the coroutine is BlockedOnRead(a), a readable event without the hup
\* hint on another token b reregisters b with empty interest, resumes nothing and
\* leaves the state BlockedOnRead(a).
C11_CrossTokenQuiet ==
    [][\A a, b \in Tokens :
          (a # b /\ state = BlockedOnRead(a) /\ readable(b, FALSE)) =>
              /\ reg'[b] = ArmedFor(InterestNone)
              /\ interest'[b] = InterestNone
              /\ state' = BlockedOnRead(a)
              /\ co' = co /\ ctl' = "reactor" /\ ext' = NoFrame]_vars

\* C11 witness: parked in read on one token, the other token's cell has been
\* reregistered with empty interest and no hup was handled for it
C11_Witness ==
    \E a, b \in handles :
        /\ a # b /\ ctl = "reactor" /\ state = BlockedOnRead(a)
        /\ ops = 1 /\ co.yl = 1
        /\ reg[b] = ArmedFor(InterestNone) /\ ~peer_hup[b]

\* writable's branches are readable's with read and write swapped
MirrorState(st) ==
    IF st.k = "BlockedOnRead" THEN BlockedOnWrite(st.t)
    ELSE IF st.k = "BlockedOnWrite" THEN BlockedOnRead(st.t)
    ELSE st

\* C12: writable takes, in every state, the branch readable takes in the mirrored
\* state; in particular writable(u) while BlockedOnWrite(b), b # u, reregisters u with
\* empty interest without resuming.
C12_WritableMirrorsReadable ==
    /\ [](\A u \in handles :
             ctl = "reactor" => WritableDecision(state, u) = ReadableDecision(MirrorState(state), u))
    /\ [][\A u, b \in Tokens :
             (u # b /\ state = BlockedOnWrite(b) /\ writable(u)) =>
                 /\ reg'[u] = ArmedFor(InterestNone)
                 /\ interest'[u] = InterestNone
                 /\ state' = state /\ co' = co /\ ctl' = "reactor"]_vars

\* C13: a readable event without the hup hint on t while the coroutine is
\* BlockedOnWrite(t) reregisters t for writable, resumes nothing and leaves the state;
\* the next writable(t) resumes the coroutine in the same write call.
C13_ReadableWhileBlockedOnWrite ==
    [][\A t \in Tokens :
          /\ (state = BlockedOnWrite(t) /\ readable(t, FALSE)) =>
                /\ reg'[t] = ArmedFor(InterestWritable)
                /\ interest'[t] = InterestWritable
                /\ state' = state /\ co' = co /\ ctl' = "reactor" /\ ext' = NoFrame
          /\ (state = BlockedOnWrite(t) /\ writable(t)) =>
                /\ state' = Running /\ ctl' = "co"
                /\ co' = [co EXCEPT !.at = "try_write"] /\ co.h = t /\ co.at = "parked_write"]_vars

\* C13 witness: the first call, a write on t, parked once inside start, and the cell
\* of t was since reregistered for writable by a plain readable event
C13_Witness ==
    \E t \in handles :
        /\ ctl = "reactor" /\ state = BlockedOnWrite(t)
        /\ ops = 1 /\ co.yl = 1 /\ ~peer_hup[t]
        /\ interest[t] = InterestWritable /\ reg[t] = ArmedFor(InterestWritable)

\* ------------------------------------------- two coroutines, one pair
\* The writer's end takes bytes while the pair buffers fewer than MaxBuf; the
\* reader's end has bytes to read while the buffer is not empty.  Nothing flows the
\* other way: the reader's end always takes a write, the writer's end never has
\* anything to read.  Neither end is closed.
PipeRdReady(c) == c = "r" /\ pipe.buf # << >>
PipeWrReady(c) == c = "r" \/ Len(pipe.buf) < MaxBuf

Min(a, b) == IF a < b THEN a ELSE b

\* the builder has control until both coroutines are started, then the event loop
PipeIdle(at) ==
    [who |-> IF \E d \in Roles : at[d] = "unspawned" THEN "builder" ELSE "loop",
     c |-> "none", op |-> "none"]

\* Builder::start of one of the two: spawn and resume; the closure records its
\* handle and the body makes its first call
p_start(c) ==
    /\ pipe.run.who = "builder"
    /\ pipe.at[c] = "unspawned"
    /\ pipe' = [pipe EXCEPT !.at[c] = "try",
                            !.run = [who |-> "co", c |-> c, op |-> "start"]]
    /\ UNCHANGED MainVars

\* InternalHandle::write in the writer, one turn of the loop: the body passes what
\* is left of the message; an accepted count is returned to it, and it writes
\* again, or returns when nothing is left
p_try_write ==
    /\ pipe.run.who = "co"
    /\ pipe.run.c = "w"
    /\ pipe.at.w = "try"
    /\ LET room == MaxBuf - Len(pipe.buf)
           rest == SubSeq(Message, Len(pipe.sent) + 1, MaxMsg)
           outcome == IF room > 0 THEN "bytes" ELSE "wouldblock"
       IN  IF WriteParks(outcome)
           THEN pipe' = [pipe EXCEPT !.st.w = ParkStateWrite(TokenOf.w), !.at.w = "block"]
           ELSE \E n \in 1 .. Min(room, Len(rest)) :
                  LET now == SubSeq(rest, 1, n)
                      done == Len(pipe.sent) + n = MaxMsg
                  IN  pipe' = [pipe EXCEPT
                                 !.buf = @ \o now,
                                 !.sent = @ \o now,
                                 !.st.w = IF done THEN Finished ELSE @,
                                 !.at.w = IF done THEN "returned" ELSE @,
                                 !.run.who = IF done THEN "ext" ELSE @]
    /\ UNCHANGED MainVars

\* InternalHandle::read in the reader, one turn of the loop: the bytes returned go
\* to the body, which reads again
p_try_read ==
    /\ pipe.run.who = "co"
    /\ pipe.run.c = "r"
    /\ pipe.at.r = "try"
    /\ LET outcome == IF pipe.buf # << >> THEN "bytes" ELSE "wouldblock"
       IN  IF ReadParks(outcome)
           THEN pipe' = [pipe EXCEPT !.st.r = ParkStateRead(TokenOf.r), !.at.r = "block"]
           ELSE \E n \in 1 .. Len(pipe.buf) :
                  pipe' = [pipe EXCEPT
                             !.got = @ \o SubSeq(pipe.buf, 1, n),
                             !.buf = SubSeq(@, n + 1, Len(@))]
    /\ UNCHANGED MainVars

\* Coroutine::block()
p_block ==
    /\ pipe.run.who = "co"
    /\ pipe.at[pipe.run.c] = "block"
    /\ pipe' = [pipe EXCEPT !.at[pipe.run.c] = "parked",
                            !.yielded[pipe.run.c] = TRUE,
                            !.run.who = "ext"]
    /\ UNCHANGED MainVars

\* IO::reregister of the cell of c
PipeReregistered(c) ==
    LET i == to_interest_for(pipe.st[c], TokenOf[c])
    IN  [pipe EXCEPT !.interest[c] = i, !.reg[c] = ArmedFor(i)]

\* resume() returns to the frame that called it
p_resume_returns ==
    /\ pipe.run.who = "ext"
    /\ LET c == pipe.run.c
           p == IF ReregistersAfterResume(pipe.run.op) THEN PipeReregistered(c) ELSE pipe
       IN  pipe' = [p EXCEPT !.run = PipeIdle(pipe.at)]
    /\ UNCHANGED MainVars

\* what a handler does on its decision: lines 171-189 and 205-224
PipeHandled(c, op, decision) ==
    CASE decision = "resume" ->
           [pipe EXCEPT !.st[c] = StateBeforeResume,
                        !.at[c] = "try",
                        !.reg[c].armed = FALSE,
                        !.run = [who |-> "co", c |-> c, op |-> op]]
      [] decision = "reregister" -> PipeReregistered(c)
      [] OTHER -> [pipe EXCEPT !.reg[c].armed = FALSE]

\* ExternalHandle::readable of the cell of c, without the hup hint
p_readable(c) ==
    /\ pipe.run.who = "loop"
    /\ pipe.reg[c].registered /\ pipe.reg[c].armed
    /\ pipe.reg[c].mask \cap InterestReadable # {}
    /\ PipeRdReady(c) \/ pipe.spurious < MaxSpurious
    /\ pipe' = [PipeHandled(c, "readable", ReadableDecision(pipe.st[c], TokenOf[c]))
                  EXCEPT !.spurious = IF PipeRdReady(c) THEN @ ELSE @ + 1]
    /\ UNCHANGED MainVars

\* ExternalHandle::writable of the cell of c
p_writable(c) ==
    /\ pipe.run.who = "loop"
    /\ pipe.reg[c].registered /\ pipe.reg[c].armed
    /\ pipe.reg[c].mask \cap InterestWritable # {}
    /\ PipeWrReady(c) \/ pipe.spurious < MaxSpurious
    /\ pipe' = [PipeHandled(c, "writable", WritableDecision(pipe.st[c], TokenOf[c]))
                  EXCEPT !.spurious = IF PipeWrReady(c) THEN @ ELSE @ + 1]
    /\ UNCHANGED MainVars

PipeCoroutineStep ==
    \/ p_try_write
    \/ p_try_read
    \/ p_block

PipeNext ==
    \/ \E c \in Roles : p_start(c)
    \/ PipeCoroutineStep
    \/ p_resume_returns
    \/ \E c \in Roles : p_readable(c)
    \/ \E c \in Roles : p_writable(c)

\* both coroutines are started, a coroutine runs until it blocks or returns,
\* resume() returns, and the event loop dispatches an event that stays deliverable
PipeFairness ==
    /\ \A c \in Roles : WF_vars(p_start(c))
    /\ WF_vars(PipeCoroutineStep)
    /\ WF_vars(p_resume_returns)
    /\ \A c \in Roles : WF_vars(p_readable(c))
    /\ \A c \in Roles : WF_vars(p_writable(c))

PipeSpec == Init /\ [][PipeNext]_vars /\ PipeFairness

IsPrefix(a, b) == Len(a) <= Len(b) /\ a = SubSeq(b, 1, Len(a))

C15_FinishedIsTerminal ==
    [][/\ state = Finished => (state' = Finished /\ co' = co /\ ctl' # "co")
       /\ \A t \in Tokens :
            (state = Finished /\ (readable(t, FALSE) \/ writable(t))) =>
                /\ reg'[t] = [registered |-> TRUE, mask |-> reg[t].mask, armed |-> FALSE]
                /\ \A u \in Tokens \ {t} : reg'[u] = reg[u]
                /\ interest' = interest /\ deregs' = deregs /\ peer_hup' = peer_hup
                /\ ctl' = "reactor" /\ ext' = NoFrame /\ panicked' = "no"]_vars

\* C15 witness: the body returned without ever blocking, and an event without the
\* hup hint has fired the registration made by wrap_io, which was not rearmed
C15_Witness ==
    \E t \in handles :
        /\ ctl = "reactor" /\ state = Finished /\ ~yielded
        /\ reg[t] = [WrapRegistration EXCEPT !.armed = FALSE]
        /\ interest[t] = InterestNone /\ ~peer_hup[t] /\ deregs[t] = 0

\* the mask of a token for a coroutine parked by read() or write()
ParkedMask(t) ==
    IF state = BlockedOnRead(t) THEN InterestReadable
    ELSE IF state = BlockedOnWrite(t) THEN InterestWritable
    ELSE InterestNone

\* C16: a transport is deregistered only by a readable event with the hup hint on
\* a cell whose recorded interest is exactly hup, which happens only once the
\* coroutine is Finished; a hup event for a coroutine that is not Finished sets
\* peer_hup, reregisters with the mask of the state, and deregisters nothing.
C16_DeregisterOnlyOnHupWithHupInterest ==
    [][\A t \in Tokens :
          /\ (deregs'[t] # deregs[t] \/ (reg[t].registered /\ ~reg'[t].registered)) =>
                /\ readable(t, TRUE)
                /\ interest[t] = InterestHup /\ state = Finished
                /\ deregs'[t] = deregs[t] + 1 /\ reg'[t] = Unregistered
                /\ interest'[t] = InterestNone
          /\ (state # Finished /\ readable(t, TRUE)) =>
                /\ peer_hup'[t]
                /\ reg'[t] = ArmedFor(ParkedMask(t)) /\ interest'[t] = ParkedMask(t)
                /\ deregs' = deregs /\ state' = state /\ co' = co /\ ctl' = "reactor"]_vars

\* C16 witness: a cell that handled a hup while the coroutine was parked, and was
\* deregistered by a later hup once the coroutine had finished
C16_Witness ==
    \E t \in handles :
        /\ state = Finished /\ yielded /\ peer_hup[t]
        /\ deregs[t] = 1 /\ reg[t] = Unregistered /\ interest[t] = InterestNone

\* C17: to_interest_for never meets Running.  Whenever the event loop has control,
\* and whenever a handler is about to reregister after resume(), the state is not
\* Running, and the program never panics with "wrong state".
C17_NoInterestQueryWhileRunning ==
    /\ panicked # "wrong state"
    /\ ctl = "reactor" => state # Running
    /\ (ctl = "ext" /\ panicked = "no" /\ ReregistersAfterResume(ext.op)) => state # Running

\* C17 witness: the hup path has reregistered the cell of a coroutine parked in read
C17_Witness ==
    \E t \in handles :
        /\ ctl = "reactor" /\ panicked = "no" /\ state = BlockedOnRead(t)
        /\ peer_hup[t] /\ interest[t] = InterestReadable /\ reg[t] = ArmedFor(InterestReadable)

\* the mask of a token for the state at hand, spelled out
CurrentMask(t) ==
    IF state = Finished THEN InterestHup ELSE ParkedMask(t)

\* C18: while the resumed coroutine runs, the registration of the token stays fired;
\* when resume() has returned, the handler rearms it with the mask of the state the
\* coroutine left: the direction it parked on for this token, empty if it parked on
\* another token, hup if the body returned.
C18_ReregisterUsesCurrentState ==
    /\ []((ctl \in {"co", "ext"} /\ ext.op \in {"readable", "writable"}) =>
              (reg[ext.tok].registered /\ ~reg[ext.tok].armed))
    /\ [][(ctl = "ext" /\ ext.op \in {"readable", "writable"} /\ ctl' = "reactor") =>
              /\ reg'[ext.tok] = ArmedFor(CurrentMask(ext.tok))
              /\ interest'[ext.tok] = CurrentMask(ext.tok)
              /\ state' = state]_vars

\* C18 witness: resumed by readable(t), the coroutine has parked in a write on t,
\* and resume() has just returned to the handler
C18_Witness ==
    ctl = "ext" /\ ext.op = "readable" /\ state = BlockedOnWrite(ext.tok) /\ panicked = "no"

\* C19: once resume() has failed, the state is Finished.
C19_ResumeFailureForcesFinished ==
    panicked = "resume() failed" => state = Finished

\* C20: no borrow is ever refused, and at every switch between the coroutine and
\* the frame that resumes it no guard of any cell is outstanding.
C20_BorrowDiscipline ==
    /\ [](panicked # "already borrowed")
    /\ [][(ctl' # ctl /\ (ctl = "co" \/ ctl' = "co")) => held' = << >>]_vars

\* C20 witness: the coroutine runs again after a block(), no guard outstanding
C20_Witness ==
    ctl = "co" /\ co.at = "try_write" /\ co.yl = 1 /\ held = << >> /\ panicked = "no"

====
